---- MODULE Spec2Model ----
(***************************************************************************)
(* Ring-buffer deque of earthboundkid/deque (src/deque.go, later variant,  *)
(* lines 117-299; src/iter.go), with the differential tests of             *)
(* src/deque_test.go as drivers.                                           *)
(*                                                                         *)
(* A deque is the record [len, head, backing, bcap]: the struct's len and  *)
(* head fields, the elements of the backing slice (a Go slice indexed      *)
(* from 0 is the TLA+ sequence indexed from 1) and cap(backing).           *)
(* Elements are Go ints.                                                   *)
(***************************************************************************)
EXTENDS Integers, Sequences, FiniteSets, TLC

\* ------------------------------------------------------------------ bounds
\* Largest capacity a state of Spec / SpecProp may have.
MaxCap == 4
\* Pushed values are 0..MaxVal (0 is also the element type's zero value).
MaxVal == 1
\* Largest argument of Grow / Make in Spec.
MaxGrow == 3
\* Longest argument list of Of / PushBackSlice in Spec.
MaxItems == 1
\* Largest logical index handed to Less / Swap in Spec (the smallest is -1).
MaxIdx == 1
\* Number of characters of a dequeLang program in SpecLang.
MaxSteps == 5
\* Number of iterations of a sequence value started in SpecIter.
MaxRuns == 2

\* ------------------------------------------------------- Go slice helpers
\* The zero value of the element type (int).
Zero == 0

\* sizeof(int) on a 64-bit build, in bytes.
ElemSize == 8

\* Threshold of the runtime's nextslicecap between doubling and 1.25x growth.
Threshold == 256

\* The runtime's 67 size classes for small objects, in bytes (up to 32768).
SizeClasses ==
  << 8, 16, 24, 32, 48, 64, 80, 96, 112, 128, 144, 160, 176, 192, 208, 224,
     240, 256, 288, 320, 352, 384, 416, 448, 480, 512, 576, 640, 704, 768,
     896, 1024, 1152, 1280, 1408, 1536, 1792, 2048, 2304, 2688, 3072, 3200,
     3456, 4096, 4864, 5376, 6144, 6528, 6784, 6912, 8192, 9472, 9728,
     10240, 10880, 12288, 13568, 14336, 16384, 18432, 19072, 20480, 21760,
     24576, 27264, 28672, 32768 >>

\* The runtime's page: a larger allocation is a whole number of pages.
PageSize == 8192

\* make([]T, n): n zero elements.
zeros(n) == [k \in 1..n |-> Zero]

\* s[lo:hi] of a Go slice.
SliceOf(s, lo, hi) == SubSeq(s, lo + 1, hi)

\* Go's % truncates toward zero: the result has the sign of the dividend.
\* A zero divisor panics; -1 stands for it (no slot has that index).
GoRem(a, b) ==
  IF b = 0 THEN -1
  ELSE IF a >= 0 THEN a % b
  ELSE -((-a) % b)

\* The first size class from index k on that holds `bytes`.
RECURSIVE classFrom(_, _)
classFrom(k, bytes) ==
  IF SizeClasses[k] >= bytes THEN SizeClasses[k]
  ELSE classFrom(k + 1, bytes)

\* roundupsize: the smallest size class holding `bytes`; above the largest
\* class, `bytes` rounded up to whole pages.
roundupsize(bytes) ==
  IF bytes <= SizeClasses[Len(SizeClasses)] THEN classFrom(1, bytes)
  ELSE ((bytes + PageSize - 1) \div PageSize) * PageSize

RECURSIVE growLoop(_, _)
growLoop(newcap, newLen) ==
  LET c == newcap + ((newcap + 3 * Threshold) \div 4)
  IN IF c >= newLen THEN c ELSE growLoop(c, newLen)

\* nextslicecap: the capacity append asks for before size-class rounding.
nextslicecap(newLen, oldCap) ==
  IF newLen > oldCap + oldCap THEN newLen
  ELSE IF oldCap < Threshold THEN oldCap + oldCap
  ELSE growLoop(oldCap, newLen)

\* cap(append(s, make([]T, n)...)) when the append must reallocate.
growslice(newLen, oldCap) ==
  roundupsize(nextslicecap(newLen, oldCap) * ElemSize) \div ElemSize

\* ------------------------------------------------------------- the deque
\* var d Deque[T]
ZeroDeque == [len |-> 0, head |-> 0, backing |-> << >>, bcap |-> 0]

LenOf(d) == d.len

Cap(d) == d.bcap

\* frontback that hands the two runs back in the other order.
frontback_Swapped(d) ==
  LET end0 == d.head + d.len
      end  == IF end0 > Len(d.backing) THEN Len(d.backing) ELSE end0
      rest == d.len - (end - d.head)
  IN [front |-> SliceOf(d.backing, 0, rest),
      back  |-> SliceOf(d.backing, d.head, end)]

\* frontback: the two contiguous runs of the live range.
frontback(d) ==
  LET end0 == d.head + d.len
      end  == IF end0 > Len(d.backing) THEN Len(d.backing) ELSE end0
      rest == d.len - (end - d.head)
  IN [front |-> SliceOf(d.backing, d.head, end),
      back  |-> SliceOf(d.backing, 0, rest)]

\* copy(dst, src) of Go: min(len(dst), len(src)) elements, the rest of dst kept.
gocopy(dst, src) ==
  [k \in 1..Len(dst) |-> IF k <= Len(src) THEN src[k] ELSE dst[k]]

\* copy that moves the front run only and forgets the back run.
copy_FrontOnly(d, dst) ==
  [len |-> d.len, head |-> 0,
   backing |-> gocopy(dst.elems, frontback(d).front), bcap |-> dst.cap]

\* copy that leaves head where it was.
copy_KeepHead(d, dst) ==
  LET fb   == frontback(d)
      dst1 == gocopy(dst.elems, fb.front \o fb.back)
  IN [len |-> d.len, head |-> d.head, backing |-> dst1, bcap |-> dst.cap]

\* Earlier copy that moves the array as it lies, without rotating it.
copyRotate_Straight(d, dst) ==
  [len |-> d.len, head |-> 0, backing |-> gocopy(dst.elems, d.backing),
   bcap |-> dst.cap]

\* d.copy(dst) of the earlier variant: backing[head:] first, then
\* backing[:head], the dead slots with the live ones.
copyRotate(d, dst) ==
  LET hi   == SliceOf(d.backing, d.head, Len(d.backing))
      n    == IF Len(hi) < Len(dst.elems) THEN Len(hi) ELSE Len(dst.elems)
      dst1 == gocopy(dst.elems, hi)
      lo   == IF dst.fresh THEN SliceOf(d.backing, 0, d.head)
              ELSE SliceOf(dst1, 0, d.head)
      tl   == gocopy(SliceOf(dst1, n, Len(dst1)), lo)
      dst2 == [k \in 1..Len(dst1) |-> IF k <= n THEN dst1[k] ELSE tl[k - n]]
  IN [len |-> d.len, head |-> 0, backing |-> dst2, bcap |-> dst.cap]

\* d.copy(dst): dst is [elems, cap, fresh]; fresh says dst is a new array.
\* When dst shares d's array the second copy reads the slots the first wrote.
copy(d, dst) ==
  LET fb    == frontback(d)
      n     == IF Len(fb.front) < Len(dst.elems) THEN Len(fb.front)
               ELSE Len(dst.elems)
      dst1  == gocopy(dst.elems, fb.front)
      back  == IF dst.fresh THEN fb.back
               ELSE SliceOf(dst1, 0, Len(fb.back))
      tl    == gocopy(SliceOf(dst1, n, Len(dst1)), back)
      dst2  == [k \in 1..Len(dst1) |-> IF k <= n THEN dst1[k] ELSE tl[k - n]]
  IN [len |-> d.len, head |-> 0, backing |-> dst2, bcap |-> dst.cap]

\* Grow without its argument check.
GrowPanics_Never(n) == FALSE

\* Grow panics on a negative argument, before touching the deque.
GrowPanics(n) == n < 0

\* Grow whose room test is off by one: it keeps the array when one slot
\* less than asked is free.
Grow_OffByOne(d, n) ==
  IF n < 0 THEN d
  ELSE IF Cap(d) - d.len >= n - 1 THEN d
  ELSE LET newLen == Len(d.backing) + n
           gcap   == growslice(newLen, d.bcap)
           grown  == d.backing \o zeros(gcap - Len(d.backing))
       IN copy(d, [elems |-> grown, cap |-> gcap, fresh |-> TRUE])

\* Grow that keeps the slice append returned, without extending it to its
\* capacity.
Grow_NoReslice(d, n) ==
  IF n < 0 THEN d
  ELSE IF Cap(d) - d.len >= n THEN d
  ELSE LET newLen == Len(d.backing) + n
           fresh  == newLen > d.bcap
           gcap   == IF fresh THEN growslice(newLen, d.bcap) ELSE d.bcap
           grown  == d.backing \o zeros(n)
       IN copy(d, [elems |-> grown, cap |-> gcap, fresh |-> fresh])

\* d.Grow(n).
Grow(d, n) ==
  IF n < 0 THEN d
  ELSE IF Cap(d) - d.len >= n THEN d
  ELSE LET newLen == Len(d.backing) + n
           fresh  == newLen > d.bcap
           gcap   == IF fresh THEN growslice(newLen, d.bcap) ELSE d.bcap
           grown  == d.backing \o zeros(gcap - Len(d.backing))
       IN copy(d, [elems |-> grown, cap |-> gcap, fresh |-> fresh])

\* Make(cap).
Make(c) == Grow(ZeroDeque, c)

\* d.Shrink() (Clip).
Shrink(d) ==
  IF Cap(d) = LenOf(d) THEN d
  ELSE copy(d, [elems |-> zeros(LenOf(d)), cap |-> LenOf(d), fresh |-> TRUE])

\* at without the reduction modulo the capacity.
at_NoMod(d, n) ==
  IF d.len < 1 THEN -1
  ELSE d.head + n

\* d.at(n): the physical index of logical index n.
at(d, n) ==
  IF d.len < 1 THEN -1
  ELSE GoRem(d.head + n, Cap(d))

\* tail that names the slot after the last element.
tail_PastEnd(d) == at(d, d.len)

\* d.tail()
tail(d) == at(d, d.len - 1)

\* Whether d.backing[p] is an index in range (otherwise the access panics).
InRange(d, p) == p >= 0 /\ p < Len(d.backing)

NotFound == [v |-> Zero, ok |-> FALSE, panic |-> FALSE]
Panic == [v |-> Zero, ok |-> FALSE, panic |-> TRUE]
Found(x) == [v |-> x, ok |-> TRUE, panic |-> FALSE]

\* d.Head() (Front)
Front(d) ==
  IF d.len < 1 THEN NotFound
  ELSE IF ~InRange(d, d.head) THEN Panic
  ELSE Found(d.backing[d.head + 1])

\* At that takes n = Len() for an index in range.
At_OffByOne(d, n) ==
  IF n < 0 \/ n > d.len THEN NotFound
  ELSE IF ~InRange(d, at(d, n)) THEN Panic
  ELSE Found(d.backing[at(d, n) + 1])

\* d.At(n)
At(d, n) ==
  IF n < 0 \/ n > d.len - 1 THEN NotFound
  ELSE IF ~InRange(d, at(d, n)) THEN Panic
  ELSE Found(d.backing[at(d, n) + 1])

\* d.Tail() (Back)
Back(d) ==
  IF d.len < 1 THEN NotFound
  ELSE IF ~InRange(d, tail(d)) THEN Panic
  ELSE Found(d.backing[tail(d) + 1])

\* PushHead that wraps a negative head to slot 0 instead of the last slot.
PushHead_WrapToZero(d, t) ==
  LET g  == Grow(d, 1)
      h0 == g.head - 1
      h  == IF h0 < 0 THEN 0 ELSE h0
  IN [g EXCEPT !.len = g.len + 1, !.head = h, !.backing[h + 1] = t]

\* d.PushHead(t) (PushFront)
PushHead(d, t) ==
  LET g  == Grow(d, 1)
      h0 == g.head - 1
      h  == IF h0 < 0 THEN Cap(g) - 1 ELSE h0
  IN [g EXCEPT !.len = g.len + 1, !.head = h, !.backing[h + 1] = t]

\* PushTail that asks Grow for two slots where one is needed.
PushTail_Eager(d, t) ==
  LET g  == Grow(d, 2)
      g1 == [g EXCEPT !.len = g.len + 1]
  IN [g1 EXCEPT !.backing[at(g1, g1.len - 1) + 1] = t]

\* d.PushTail(t) (PushBack)
PushTail(d, t) ==
  LET g  == Grow(d, 1)
      g1 == [g EXCEPT !.len = g.len + 1]
  IN [g1 EXCEPT !.backing[tail(g1) + 1] = t]

\* PopHead that lets head run past the end of the backing array.
PopHead_NoWrap(d) ==
  IF d.len < 1 THEN d
  ELSE [d EXCEPT !.head = d.head + 1, !.len = d.len - 1]

\* PopHead that drops the backing array when the last element leaves.
PopHead_Release(d) ==
  IF d.len < 1 THEN d
  ELSE IF d.len = 1 THEN ZeroDeque
  ELSE LET h0 == d.head + 1
           h  == IF h0 >= Cap(d) THEN 0 ELSE h0
       IN [d EXCEPT !.head = h, !.len = d.len - 1]

\* d.PopHead() (RemoveFront): the deque afterwards.
PopHead(d) ==
  IF d.len < 1 THEN d
  ELSE LET h0 == d.head + 1
           h  == IF h0 >= Cap(d) THEN 0 ELSE h0
       IN [d EXCEPT !.head = h, !.len = d.len - 1]

\* PopHead that reads the value to return after it has advanced head.
PopHeadRet_AfterAdvance(d) ==
  IF d.len < 1 THEN NotFound
  ELSE Found(d.backing[PopHead(d).head + 1])

\* d.PopHead(): the returned (t, ok): Head's value, with ok = true.
PopHeadRet(d) ==
  IF d.len < 1 THEN NotFound
  ELSE IF Front(d).panic THEN Panic
  ELSE Found(Front(d).v)

\* PopTail that decrements len without looking at Tail's ok.
PopTail_Unchecked(d) == [d EXCEPT !.len = d.len - 1]

\* d.PopTail() (RemoveBack): the deque afterwards.
PopTail(d) ==
  IF ~Back(d).ok THEN d
  ELSE [d EXCEPT !.len = d.len - 1]

\* d.PopTail(): the returned (t, ok): Tail's value, with ok = true.
PopTailRet(d) ==
  IF Back(d).panic THEN Panic
  ELSE IF ~Back(d).ok THEN NotFound
  ELSE Found(Back(d).v)

\* ---------------------------------------------------- the earlier variant
\* The earlier Deque of deque.go differs from the later one in copy and
\* tail. Head and PopHead read the same in both and call neither, so Front,
\* PopHead and PopHeadRet stand for them; the operators below are the ones
\* that reach copy or tail.

\* d.Grow(n), earlier variant.
GrowEarly(d, n) ==
  IF n < 0 THEN d
  ELSE IF Cap(d) - d.len >= n THEN d
  ELSE LET newLen == Len(d.backing) + n
           fresh  == newLen > d.bcap
           gcap   == IF fresh THEN growslice(newLen, d.bcap) ELSE d.bcap
           grown  == d.backing \o zeros(gcap - Len(d.backing))
       IN copyRotate(d, [elems |-> grown, cap |-> gcap, fresh |-> fresh])

\* d.Shrink(), earlier variant.
ShrinkEarly(d) ==
  IF Cap(d) = LenOf(d) THEN d
  ELSE copyRotate(d, [elems |-> zeros(LenOf(d)), cap |-> LenOf(d),
                      fresh |-> TRUE])

\* d.tail(), earlier variant.
tailEarly(d) ==
  IF d.len < 1 THEN -1
  ELSE GoRem(d.head + d.len - 1, Cap(d))

\* d.Tail(), earlier variant.
TailEarly(d) ==
  IF d.len < 1 THEN NotFound
  ELSE IF ~InRange(d, tailEarly(d)) THEN Panic
  ELSE Found(d.backing[tailEarly(d) + 1])

\* d.PushHead(t), earlier variant.
PushHeadEarly(d, t) ==
  LET g  == GrowEarly(d, 1)
      h0 == g.head - 1
      h  == IF h0 < 0 THEN Cap(g) - 1 ELSE h0
  IN [g EXCEPT !.len = g.len + 1, !.head = h, !.backing[h + 1] = t]

\* d.PushTail(t), earlier variant.
PushTailEarly(d, t) ==
  LET g  == GrowEarly(d, 1)
      g1 == [g EXCEPT !.len = g.len + 1]
  IN [g1 EXCEPT !.backing[tailEarly(g1) + 1] = t]

\* d.PopTail(), earlier variant: the deque afterwards and the returned pair.
PopTailEarly(d) ==
  IF ~TailEarly(d).ok THEN d
  ELSE [d EXCEPT !.len = d.len - 1]

PopTailRetEarly(d) ==
  IF TailEarly(d).panic THEN Panic
  ELSE IF ~TailEarly(d).ok THEN NotFound
  ELSE Found(TailEarly(d).v)

\* d.Items()
Items(d) == frontback(d).front \o frontback(d).back

\* d.Slice(): s[i] = v for each (i, v) of d.All(), which stops at the first
\* At that is not found.
Slice(d) ==
  LET stop == {k \in 0..(LenOf(d) - 1) : ~At(d, k).ok}
      upto == IF stop = {} THEN LenOf(d)
              ELSE CHOOSE k \in stop : \A m \in stop : k <= m
  IN [k \in 1..LenOf(d) |-> IF k <= upto THEN At(d, k - 1).v ELSE Zero]

\* d.All() iterated to completion from index i: the pairs handed to yield.
\* The loop returns at the first At that is not found.
RECURSIVE AllLoop(_, _)
AllLoop(d, i) ==
  IF i >= LenOf(d) THEN << >>
  ELSE IF ~At(d, i).ok THEN << >>
  ELSE << << i, At(d, i).v >> >> \o AllLoop(d, i + 1)

All(d) == AllLoop(d, 0)

\* d.Reverse() iterated to completion from index i downwards.
RECURSIVE ReverseLoop(_, _)
ReverseLoop(d, i) ==
  IF i < 0 THEN << >>
  ELSE IF ~At(d, i).ok THEN << >>
  ELSE << << i, At(d, i).v >> >> \o ReverseLoop(d, i - 1)

\* Reverse that starts one index past the last element.
Reverse_FromLen(d) == ReverseLoop(d, LenOf(d))

Reverse(d) == ReverseLoop(d, LenOf(d) - 1)

\* d.PushBackSeq(seq)
RECURSIVE PushBackSeq(_, _)
PushBackSeq(d, s) ==
  IF s = << >> THEN d ELSE PushBackSeq(PushTail(d, Head(s)), Tail(s))

\* d.PushBackSlice(s)
PushBackSlice(d, s) == PushBackSeq(Grow(d, Len(s)), s)

\* Of's loop pushing each item to the front instead of the back.
RECURSIVE OfLoop_PushHead(_, _)
OfLoop_PushHead(d, items) ==
  IF items = << >> THEN d
  ELSE OfLoop_PushHead(PushHead(d, Head(items)), Tail(items))

\* PushBackSlice that pushes without reserving room first.
PushBackSliceSteps_NoGrow(d, s) ==
  [k \in 1..(Len(s) + 1) |-> PushBackSeq(d, SubSeq(s, 1, k - 1))]

\* The deque at each point of d.PushBackSlice(s): after the Grow(len(s))
\* (index 1) and after each PushBack of the loop (index k + 1 after k pushes).
PushBackSliceSteps(d, s) ==
  [k \in 1..(Len(s) + 1) |->
     PushBackSeq(Grow(d, Len(s)), SubSeq(s, 1, k - 1))]

\* Of(items...)
RECURSIVE OfLoop(_, _)
OfLoop(d, items) ==
  IF items = << >> THEN d ELSE OfLoop(PushTail(d, Head(items)), Tail(items))

Of(items) == OfLoop(Grow(ZeroDeque, Len(items)), items)

\* ---------------------------------------------------- the sortable adapter
\* Sortable.Less(i, j): [v, panic]; an index outside the slice panics.
Less(d, i, j) ==
  IF ~InRange(d, at(d, i)) \/ ~InRange(d, at(d, j))
  THEN [v |-> FALSE, panic |-> TRUE]
  ELSE [v |-> d.backing[at(d, i) + 1] < d.backing[at(d, j) + 1],
        panic |-> FALSE]

\* Swap that indexes the backing array with the logical indices.
Swap_Raw(d, i, j) ==
  IF ~InRange(d, i) \/ ~InRange(d, j)
  THEN [d |-> d, panic |-> TRUE]
  ELSE [d |-> [d EXCEPT !.backing =
                 [[d.backing EXCEPT ![i + 1] = d.backing[j + 1]]
                    EXCEPT ![j + 1] = d.backing[i + 1]]],
        panic |-> FALSE]

\* Sortable.Swap(i, j): [d, panic]. Both right-hand operands are read before
\* either slot is written, so a panic leaves the slice as it was.
Swap(d, i, j) ==
  IF ~InRange(d, at(d, i)) \/ ~InRange(d, at(d, j))
  THEN [d |-> d, panic |-> TRUE]
  ELSE [d |-> [d EXCEPT !.backing =
                 [[d.backing EXCEPT ![at(d, i) + 1] = d.backing[at(d, j) + 1]]
                    EXCEPT ![at(d, j) + 1] = d.backing[at(d, i) + 1]]],
        panic |-> FALSE]

\* sort.Sort over Len/Less/Swap: the insertion sort it runs on short inputs.
RECURSIVE insertDown(_, _)
insertDown(d, j) ==
  IF j > 0 /\ Less(d, j, j - 1).v
  THEN insertDown(Swap(d, j, j - 1).d, j - 1)
  ELSE d

RECURSIVE insertionSort(_, _)
insertionSort(d, i) ==
  IF i < LenOf(d) THEN insertionSort(insertDown(d, i), i + 1) ELSE d

Sort(d) == insertionSort(d, 1)

\* ------------------------------------------------------------------ state
\* d          the deque under test
\* pre        the deque the last operation started from (the zero deque
\*            for the constructors Make and Of)
\* op         the last operation; arg its integer arguments
\* ret        what the last operation returned: [v, ok, panic]
\* reserve    pushes still covered by the last Grow(n) / Make(n);
\* reserveCap << the capacity that Grow left >>, << >> when none is open
\* ref        the reference list (container/list) driven in lockstep
\* refRet     what the reference list's removal returned: [v, ok]
\* ctr        dequeLang's counter i, the next value to push
\* steps      characters of the dequeLang program consumed so far
\* seq        the iter.Seq2 value held by the program and its iteration:
\*            kind ("none", "All", "Reverse"), madeLen (Len() when the value
\*            was obtained), ran (iterated at least once), runs (iterations
\*            started so far), active (inside the loop), i (loop index),
\*            n (the bound range d.Len() took), out (pairs yielded in this
\*            iteration), reads (At calls in this iteration), stopped (the
\*            consumer broke out)
\* early      the deque of the earlier variant driven with the same calls as
\*            d: q (the deque) and ret (what its last call returned)
VARIABLES d, pre, op, arg, ret, reserve, reserveCap, ref, refRet, ctr, steps,
          seq, early

vars ==
  << d, pre, op, arg, ret, reserve, reserveCap, ref, refRet, ctr, steps, seq,
     early >>

NoReserve == << >>

Values == 0..MaxVal

\* Argument lists of Of and PushBackSlice.
ItemSeqs == UNION {[1..n -> Values] : n \in 0..MaxItems}

\* Logical indices handed to At: below, inside and beyond the capacity.
AtIndices == -1..MaxCap

\* Logical indices handed to Less and Swap.
Indices == -1..MaxIdx

NoRet == [v |-> Zero, ok |-> FALSE, panic |-> FALSE]
NoRefRet == [v |-> Zero, ok |-> FALSE]
NoEarly == [q |-> ZeroDeque, ret |-> NoRet]
NoSeq ==
  [kind |-> "none", madeLen |-> 0, ran |-> FALSE, runs |-> 0,
   active |-> FALSE, i |-> 0, n |-> 0, out |-> << >>, reads |-> 0,
   stopped |-> FALSE]

Init ==
  /\ d = ZeroDeque
  /\ pre = ZeroDeque
  /\ op = "init"
  /\ arg = << >>
  /\ ret = NoRet
  /\ reserve = 0
  /\ reserveCap = NoReserve
  /\ ref = << >>
  /\ refRet = NoRefRet
  /\ ctr = 0
  /\ steps = 0
  /\ seq = NoSeq
  /\ early = NoEarly

TestVarsUnchanged == UNCHANGED << ref, refRet, ctr, steps, seq, early >>

\* A panic is not recovered: the program that panicked runs no further.
Running == ~ret.panic

\* Any operation other than a push closes the reservation.
CloseReserve == reserve' = 0 /\ reserveCap' = NoReserve

\* A push uses one reserved slot while any is left.
UseReserve ==
  IF reserve > 0
  THEN reserve' = reserve - 1 /\ UNCHANGED reserveCap
  ELSE CloseReserve

\* q := Make(c); a negative c panics in Grow and no deque is returned.
MakeOp(c) ==
  LET nd == Make(c)
  IN /\ Running
     /\ Cap(nd) <= MaxCap
     /\ pre' = ZeroDeque
     /\ op' = "Make"
     /\ arg' = << c >>
     /\ IF GrowPanics(c)
        THEN d' = d /\ ret' = Panic /\ CloseReserve
        ELSE d' = nd /\ ret' = NoRet
             /\ reserve' = c /\ reserveCap' = << Cap(nd) >>
     /\ TestVarsUnchanged

\* q := Of(items...)
OfOp(items) ==
  LET nd == Of(items)
  IN /\ Running
     /\ Cap(nd) <= MaxCap
     /\ pre' = ZeroDeque
     /\ op' = "Of"
     /\ arg' = items
     /\ d' = nd
     /\ ret' = NoRet
     /\ CloseReserve
     /\ TestVarsUnchanged

\* q.Grow(n)
GrowOp(n) ==
  LET nd == Grow(d, n)
  IN /\ Running
     /\ Cap(nd) <= MaxCap
     /\ pre' = d
     /\ op' = "Grow"
     /\ arg' = << n >>
     /\ d' = nd
     /\ IF GrowPanics(n)
        THEN ret' = Panic /\ CloseReserve
        ELSE ret' = NoRet /\ reserve' = n /\ reserveCap' = << Cap(nd) >>
     /\ TestVarsUnchanged

\* q.Shrink() (Clip)
ShrinkOp ==
  /\ Running
  /\ pre' = d
  /\ op' = "Shrink"
  /\ arg' = << >>
  /\ d' = Shrink(d)
  /\ ret' = NoRet
  /\ CloseReserve
  /\ TestVarsUnchanged

\* q.PushHead(v) (PushFront)
PushHeadOp(v) ==
  LET nd == PushHead(d, v)
  IN /\ Running
     /\ Cap(nd) <= MaxCap
     /\ pre' = d
     /\ op' = "PushHead"
     /\ arg' = << v >>
     /\ d' = nd
     /\ ret' = NoRet
     /\ UseReserve
     /\ TestVarsUnchanged

\* q.PushTail(v) (PushBack)
PushTailOp(v) ==
  LET nd == PushTail(d, v)
  IN /\ Running
     /\ Cap(nd) <= MaxCap
     /\ pre' = d
     /\ op' = "PushTail"
     /\ arg' = << v >>
     /\ d' = nd
     /\ ret' = NoRet
     /\ UseReserve
     /\ TestVarsUnchanged

\* q.PushBackSlice(s)
PushBackSliceOp(s) ==
  LET nd == PushBackSlice(d, s)
  IN /\ Running
     /\ Cap(nd) <= MaxCap
     /\ pre' = d
     /\ op' = "PushBackSlice"
     /\ arg' = s
     /\ d' = nd
     /\ ret' = NoRet
     /\ CloseReserve
     /\ TestVarsUnchanged

\* q.PopHead() (RemoveFront)
PopHeadOp ==
  /\ Running
  /\ pre' = d
  /\ op' = "PopHead"
  /\ arg' = << >>
  /\ d' = PopHead(d)
  /\ ret' = PopHeadRet(d)
  /\ CloseReserve
  /\ TestVarsUnchanged

\* q.PopTail() (RemoveBack)
PopTailOp ==
  /\ Running
  /\ pre' = d
  /\ op' = "PopTail"
  /\ arg' = << >>
  /\ d' = PopTail(d)
  /\ ret' = PopTailRet(d)
  /\ CloseReserve
  /\ TestVarsUnchanged

\* q.Head() (Front)
FrontOp ==
  /\ Running
  /\ pre' = d
  /\ op' = "Front"
  /\ arg' = << >>
  /\ d' = d
  /\ ret' = Front(d)
  /\ CloseReserve
  /\ TestVarsUnchanged

\* q.Tail() (Back)
BackOp ==
  /\ Running
  /\ pre' = d
  /\ op' = "Back"
  /\ arg' = << >>
  /\ d' = d
  /\ ret' = Back(d)
  /\ CloseReserve
  /\ TestVarsUnchanged

\* q.At(n)
AtOp(n) ==
  /\ Running
  /\ pre' = d
  /\ op' = "At"
  /\ arg' = << n >>
  /\ d' = d
  /\ ret' = At(d, n)
  /\ CloseReserve
  /\ TestVarsUnchanged

\* Sortable{q}.Less(i, j)
LessOp(i, j) ==
  /\ Running
  /\ pre' = d
  /\ op' = "Less"
  /\ arg' = << i, j >>
  /\ d' = d
  /\ ret' = [v |-> Zero, ok |-> Less(d, i, j).v, panic |-> Less(d, i, j).panic]
  /\ CloseReserve
  /\ TestVarsUnchanged

\* Sortable{q}.Swap(i, j)
SwapOp(i, j) ==
  /\ Running
  /\ pre' = d
  /\ op' = "Swap"
  /\ arg' = << i, j >>
  /\ d' = Swap(d, i, j).d
  /\ ret' = [v |-> Zero, ok |-> FALSE, panic |-> Swap(d, i, j).panic]
  /\ CloseReserve
  /\ TestVarsUnchanged

\* sort.Sort(Sortable{q})
SortOp ==
  /\ Running
  /\ pre' = d
  /\ op' = "Sort"
  /\ arg' = << >>
  /\ d' = Sort(d)
  /\ ret' = NoRet
  /\ CloseReserve
  /\ TestVarsUnchanged

Next ==
  \/ \E c \in -1..MaxGrow : MakeOp(c)
  \/ \E items \in ItemSeqs : OfOp(items)
  \/ \E n \in -1..MaxGrow : GrowOp(n)
  \/ ShrinkOp
  \/ \E v \in Values : PushHeadOp(v)
  \/ \E v \in Values : PushTailOp(v)
  \/ \E s \in ItemSeqs : PushBackSliceOp(s)
  \/ PopHeadOp
  \/ PopTailOp
  \/ FrontOp
  \/ BackOp
  \/ \E n \in AtIndices : AtOp(n)
  \/ \E i, j \in Indices : LessOp(i, j)
  \/ \E i, j \in Indices : SwapOp(i, j)
  \/ SortOp

Spec == Init /\ [][Next]_vars

\* ------------------------------------------- FuzzPropTest (SpecProp)
\* The test drives a zero Deque and a container/list with the same pushes
\* and removals and compares what each removal returns.

\* l.Remove(l.Front()) / l.Remove(l.Back()) when the list is not empty.
RefFront(l) == IF l = << >> THEN NoRefRet ELSE [v |-> Head(l), ok |-> TRUE]
RefBack(l) == IF l = << >> THEN NoRefRet ELSE [v |-> l[Len(l)], ok |-> TRUE]
RefRemoveFront(l) == IF l = << >> THEN l ELSE Tail(l)
RefRemoveBack(l) == IF l = << >> THEN l ELSE SubSeq(l, 1, Len(l) - 1)

UnusedInProp ==
  UNCHANGED << reserve, reserveCap, ctr, steps, seq, early >>

\* d.PushFront(n); l.PushFront(n)
PropPushFront(n) ==
  LET nd == PushHead(d, n)
  IN /\ Running
     /\ Cap(nd) <= MaxCap
     /\ pre' = d
     /\ op' = "PushHead"
     /\ arg' = << n >>
     /\ d' = nd
     /\ ret' = NoRet
     /\ ref' = << n >> \o ref
     /\ refRet' = NoRefRet
     /\ UnusedInProp

\* d.PushBack(n); l.PushBack(n)
PropPushBack(n) ==
  LET nd == PushTail(d, n)
  IN /\ Running
     /\ Cap(nd) <= MaxCap
     /\ pre' = d
     /\ op' = "PushTail"
     /\ arg' = << n >>
     /\ d' = nd
     /\ ret' = NoRet
     /\ ref' = Append(ref, n)
     /\ refRet' = NoRefRet
     /\ UnusedInProp

\* d.Front(); d.RemoveFront(); l.Remove(l.Front())
PropRemoveFront ==
  /\ Running
  /\ pre' = d
  /\ op' = "PopHead"
  /\ arg' = << >>
  /\ d' = PopHead(d)
  /\ ret' = PopHeadRet(d)
  /\ ref' = RefRemoveFront(ref)
  /\ refRet' = RefFront(ref)
  /\ UnusedInProp

\* d.Back(); d.RemoveBack(); l.Remove(l.Back())
PropRemoveBack ==
  /\ Running
  /\ pre' = d
  /\ op' = "PopTail"
  /\ arg' = << >>
  /\ d' = PopTail(d)
  /\ ret' = PopTailRet(d)
  /\ ref' = RefRemoveBack(ref)
  /\ refRet' = RefBack(ref)
  /\ UnusedInProp

NextProp ==
  \/ \E n \in Values : PropPushFront(n)
  \/ \E n \in Values : PropPushBack(n)
  \/ PropRemoveFront
  \/ PropRemoveBack

SpecProp == Init /\ [][NextProp]_vars

\* ---------------------------------------------------- dequeLang (SpecLang)
\* One action per character of the program: q starts as Make(0), l as an
\* empty list, i as 0; every character ends with i++.

\* The slice PushBackSlice gets for a letter: n values i, i+1, ..., with
\* i++ after each.
LangSlice(n) == [k \in 1..n |-> ctr + k - 1]

UnusedInLang == UNCHANGED << reserve, reserveCap, refRet, seq, early >>

\* '+': l.PushFront(i); q.PushFront(i)
LangPushFront ==
  /\ steps < MaxSteps
  /\ pre' = d
  /\ op' = "PushHead"
  /\ arg' = << ctr >>
  /\ d' = PushHead(d, ctr)
  /\ ret' = NoRet
  /\ ref' = << ctr >> \o ref
  /\ ctr' = ctr + 1
  /\ steps' = steps + 1
  /\ UnusedInLang

\* '*': l.PushBack(i); q.PushBack(i)
LangPushBack ==
  /\ steps < MaxSteps
  /\ pre' = d
  /\ op' = "PushTail"
  /\ arg' = << ctr >>
  /\ d' = PushTail(d, ctr)
  /\ ret' = NoRet
  /\ ref' = Append(ref, ctr)
  /\ ctr' = ctr + 1
  /\ steps' = steps + 1
  /\ UnusedInLang

\* '-': remove the list's front if any; q.RemoveFront()
LangRemoveFront ==
  /\ steps < MaxSteps
  /\ pre' = d
  /\ op' = "PopHead"
  /\ arg' = << >>
  /\ d' = PopHead(d)
  /\ ret' = PopHeadRet(d)
  /\ ref' = RefRemoveFront(ref)
  /\ ctr' = ctr + 1
  /\ steps' = steps + 1
  /\ UnusedInLang

\* '/': remove the list's back if any; q.RemoveBack()
LangRemoveBack ==
  /\ steps < MaxSteps
  /\ pre' = d
  /\ op' = "PopTail"
  /\ arg' = << >>
  /\ d' = PopTail(d)
  /\ ret' = PopTailRet(d)
  /\ ref' = RefRemoveBack(ref)
  /\ ctr' = ctr + 1
  /\ steps' = steps + 1
  /\ UnusedInLang

\* '0': q.Clip()
LangClip ==
  /\ steps < MaxSteps
  /\ pre' = d
  /\ op' = "Shrink"
  /\ arg' = << >>
  /\ d' = Shrink(d)
  /\ ret' = NoRet
  /\ ref' = ref
  /\ ctr' = ctr + 1
  /\ steps' = steps + 1
  /\ UnusedInLang

\* '1'..'9': q.Grow(n)
LangGrow(n) ==
  /\ steps < MaxSteps
  /\ pre' = d
  /\ op' = "Grow"
  /\ arg' = << n >>
  /\ d' = Grow(d, n)
  /\ ret' = NoRet
  /\ ref' = ref
  /\ ctr' = ctr + 1
  /\ steps' = steps + 1
  /\ UnusedInLang

\* 'A'..'E': n = 0..4 values pushed to the list's back and handed to
\* q.PushBackSlice
LangPushBackSlice(n) ==
  /\ steps < MaxSteps
  /\ pre' = d
  /\ op' = "PushBackSlice"
  /\ arg' = LangSlice(n)
  /\ d' = PushBackSlice(d, LangSlice(n))
  /\ ret' = NoRet
  /\ ref' = ref \o LangSlice(n)
  /\ ctr' = ctr + n + 1
  /\ steps' = steps + 1
  /\ UnusedInLang

NextLang ==
  \/ LangPushFront
  \/ LangPushBack
  \/ LangRemoveFront
  \/ LangRemoveBack
  \/ LangClip
  \/ \E n \in 1..9 : LangGrow(n)
  \/ \E n \in 0..4 : LangPushBackSlice(n)

SpecLang == Init /\ [][NextLang]_vars

\* ------------------------------------------------ ExampleDeque (SpecExample)
\* d := Of(items...); sort.Sort(Sortable{d}); PushHead(5), ..., PushHead(1);
\* then PopTail until it reports ok = false. The example's items are
\* 9, 8, 7, 6; every ordering of them is run. steps counts the calls made,
\* and arg keeps the items the deque was built from.

\* The orderings of 6, 7, 8, 9.
ExampleItems ==
  {s \in [1..4 -> 6..9] : \A j, k \in 1..4 : j # k => s[j] # s[k]}

UnusedInExample ==
  UNCHANGED << reserve, reserveCap, ref, refRet, ctr, seq, early >>

\* d := deque.Of(9, 8, 7, 6)
ExampleOf(items) ==
  /\ steps = 0
  /\ pre' = ZeroDeque
  /\ op' = "Of"
  /\ arg' = items
  /\ d' = Of(items)
  /\ ret' = NoRet
  /\ steps' = steps + 1
  /\ UnusedInExample

\* sort.Sort(deque.Sortable[int]{d})
ExampleSort ==
  /\ steps = 1
  /\ pre' = d
  /\ op' = "Sort"
  /\ d' = Sort(d)
  /\ ret' = NoRet
  /\ steps' = steps + 1
  /\ UNCHANGED arg
  /\ UnusedInExample

\* for i := 5; i > 0; i-- { d.PushHead(i) }
ExamplePushHead ==
  /\ steps \in 2..6
  /\ pre' = d
  /\ op' = "PushHead"
  /\ d' = PushHead(d, 7 - steps)
  /\ ret' = NoRet
  /\ steps' = steps + 1
  /\ UNCHANGED arg
  /\ UnusedInExample

\* for { n, ok := d.PopTail(); if !ok { break } }
ExamplePopTail ==
  /\ steps >= 7
  /\ op = "PopTail" => ret.ok
  /\ pre' = d
  /\ op' = "PopTail"
  /\ d' = PopTail(d)
  /\ ret' = PopTailRet(d)
  /\ steps' = steps + 1
  /\ UNCHANGED arg
  /\ UnusedInExample

NextExample ==
  \/ \E items \in ExampleItems : ExampleOf(items)
  \/ ExampleSort
  \/ ExamplePushHead
  \/ ExamplePopTail

SpecExample == Init /\ [][NextExample]_vars

\* ------------------------------------------------- iterators (SpecIter)
\* A program that holds one sequence value s := d.All() or d.Reverse(),
\* pushes and removes between the moment it gets s and the moments it ranges
\* over s, ranges over s up to MaxRuns times, and may break out of a loop
\* after any element. Values pushed are the step count, so they differ. The
\* loop body does not touch the deque.

\* The loop of the function All / Reverse returns.
FirstIndex(kind, q) == IF kind = "All" THEN 0 ELSE LenOf(q) - 1
NextIndex(kind, i) == IF kind = "All" THEN i + 1 ELSE i - 1
InLoop(kind, i, n) == IF kind = "All" THEN i < n ELSE i >= 0

\* A loop that goes on whatever yield returned.
Continues_IgnoreYield(ok, more) == ok

\* if !ok || !yield(i, v) { return }
Continues(ok, more) == ok /\ more

UnusedInIter ==
  UNCHANGED << reserve, reserveCap, ref, refRet, ctr, early >>

\* d.PushBack(steps) outside a loop
IterPushTail ==
  /\ ~seq.active
  /\ steps < MaxSteps
  /\ pre' = d
  /\ op' = "PushTail"
  /\ arg' = << steps >>
  /\ d' = PushTail(d, steps)
  /\ ret' = NoRet
  /\ steps' = steps + 1
  /\ UNCHANGED seq
  /\ UnusedInIter

\* d.PushFront(steps) outside a loop
IterPushHead ==
  /\ ~seq.active
  /\ steps < MaxSteps
  /\ pre' = d
  /\ op' = "PushHead"
  /\ arg' = << steps >>
  /\ d' = PushHead(d, steps)
  /\ ret' = NoRet
  /\ steps' = steps + 1
  /\ UNCHANGED seq
  /\ UnusedInIter

\* d.RemoveFront() outside a loop
IterPopHead ==
  /\ ~seq.active
  /\ steps < MaxSteps
  /\ pre' = d
  /\ op' = "PopHead"
  /\ arg' = << >>
  /\ d' = PopHead(d)
  /\ ret' = PopHeadRet(d)
  /\ steps' = steps + 1
  /\ UNCHANGED seq
  /\ UnusedInIter

\* s := d.All() / s := d.Reverse(): a closure over d is returned and no
\* field of d is read (madeLen is kept for the record only).
IterMake(kind) ==
  /\ ~seq.active
  /\ seq.kind # kind
  /\ seq' = [NoSeq EXCEPT !.kind = kind, !.madeLen = LenOf(d),
                          !.runs = seq.runs]
  /\ UNCHANGED << d, pre, op, arg, ret, steps >>
  /\ UnusedInIter

\* for i, v := range s: the function is called; All takes d.Len() as the
\* bound of its range, Reverse starts from d.Len() - 1.
IterStart ==
  LET i0 == FirstIndex(seq.kind, d)
  IN /\ seq.kind # "none"
     /\ ~seq.active
     /\ seq.runs < MaxRuns
     /\ seq' = [seq EXCEPT !.ran = TRUE, !.runs = seq.runs + 1,
                           !.active = InLoop(seq.kind, i0, LenOf(d)),
                           !.i = i0, !.n = LenOf(d), !.out = << >>,
                           !.reads = 0, !.stopped = FALSE]
     /\ UNCHANGED << d, pre, op, arg, ret, steps >>
     /\ UnusedInIter

\* One pass of the loop: v, ok := d.At(i); if ok, yield(i, v), whose result
\* more is false when the consumer breaks.
IterStep(more) ==
  LET r    == At(d, seq.i)
      cont == Continues(r.ok, more)
      j    == NextIndex(seq.kind, seq.i)
  IN /\ seq.active
     /\ seq' = [seq EXCEPT !.reads = seq.reads + 1,
                           !.out = IF r.ok
                                   THEN Append(seq.out, << seq.i, r.v >>)
                                   ELSE seq.out,
                           !.stopped = r.ok /\ ~more,
                           !.i = IF cont THEN j ELSE seq.i,
                           !.active = cont /\ InLoop(seq.kind, j, seq.n)]
     /\ UNCHANGED << d, pre, op, arg, ret, steps >>
     /\ UnusedInIter

NextIter ==
  \/ IterPushTail
  \/ IterPushHead
  \/ IterPopHead
  \/ \E kind \in {"All", "Reverse"} : IterMake(kind)
  \/ IterStart
  \/ \E more \in BOOLEAN : IterStep(more)

SpecIter == Init /\ [][NextIter]_vars

\* ------------------------------------------- the two variants (SpecPair)
\* d (the later variant) and early.q (the earlier one) start as zero deques
\* and get the same calls with the same arguments, as d1 and d2 of
\* FuzzPropTest do; Grow and Shrink are driven as well.

UnusedInPair == UNCHANGED << reserve, reserveCap, ref, refRet, ctr, steps, seq >>

\* d1.PushFront(n); d2.PushHead(n)
PairPushHead(v) ==
  LET nd == PushHead(d, v)
  IN /\ Running
     /\ Cap(nd) <= MaxCap
     /\ pre' = d
     /\ op' = "PushHead"
     /\ arg' = << v >>
     /\ d' = nd
     /\ ret' = NoRet
     /\ early' = [q |-> PushHeadEarly(early.q, v), ret |-> NoRet]
     /\ UnusedInPair

\* d1.PushBack(n); d2.PushTail(n)
PairPushTail(v) ==
  LET nd == PushTail(d, v)
  IN /\ Running
     /\ Cap(nd) <= MaxCap
     /\ pre' = d
     /\ op' = "PushTail"
     /\ arg' = << v >>
     /\ d' = nd
     /\ ret' = NoRet
     /\ early' = [q |-> PushTailEarly(early.q, v), ret |-> NoRet]
     /\ UnusedInPair

\* d1.RemoveFront(); d2.PopHead()
PairPopHead ==
  /\ Running
  /\ pre' = d
  /\ op' = "PopHead"
  /\ arg' = << >>
  /\ d' = PopHead(d)
  /\ ret' = PopHeadRet(d)
  /\ early' = [q |-> PopHead(early.q), ret |-> PopHeadRet(early.q)]
  /\ UnusedInPair

\* d1.RemoveBack(); d2.PopTail()
PairPopTail ==
  /\ Running
  /\ pre' = d
  /\ op' = "PopTail"
  /\ arg' = << >>
  /\ d' = PopTail(d)
  /\ ret' = PopTailRet(d)
  /\ early' = [q |-> PopTailEarly(early.q), ret |-> PopTailRetEarly(early.q)]
  /\ UnusedInPair

\* d1.Front(); d2.Head()
PairHead ==
  /\ Running
  /\ pre' = d
  /\ op' = "Front"
  /\ arg' = << >>
  /\ d' = d
  /\ ret' = Front(d)
  /\ early' = [early EXCEPT !.ret = Front(early.q)]
  /\ UnusedInPair

\* d1.Back(); d2.Tail()
PairTail ==
  /\ Running
  /\ pre' = d
  /\ op' = "Back"
  /\ arg' = << >>
  /\ d' = d
  /\ ret' = Back(d)
  /\ early' = [early EXCEPT !.ret = TailEarly(early.q)]
  /\ UnusedInPair

\* Grow(n) on both; a negative n panics in both before anything is touched.
PairGrow(n) ==
  LET nd == Grow(d, n)
  IN /\ Running
     /\ Cap(nd) <= MaxCap
     /\ pre' = d
     /\ op' = "Grow"
     /\ arg' = << n >>
     /\ d' = nd
     /\ ret' = (IF GrowPanics(n) THEN Panic ELSE NoRet)
     /\ early' = [q |-> GrowEarly(early.q, n),
                  ret |-> IF n < 0 THEN Panic ELSE NoRet]
     /\ UnusedInPair

\* Shrink() on both
PairShrink ==
  /\ Running
  /\ pre' = d
  /\ op' = "Shrink"
  /\ arg' = << >>
  /\ d' = Shrink(d)
  /\ ret' = NoRet
  /\ early' = [q |-> ShrinkEarly(early.q), ret |-> NoRet]
  /\ UnusedInPair

NextPair ==
  \/ \E v \in Values : PairPushHead(v)
  \/ \E v \in Values : PairPushTail(v)
  \/ PairPopHead
  \/ PairPopTail
  \/ PairHead
  \/ PairTail
  \/ \E n \in -1..MaxGrow : PairGrow(n)
  \/ PairShrink

SpecPair == Init /\ [][NextPair]_vars

\* ------------------------------------------------- helpers of the claims
\* The live range wraps past the end of the backing array.
Wrapped(q) == q.head + q.len > Cap(q)

\* s is in ascending order.
Ascending(s) == \A k \in 1..(Len(s) - 1) : s[k] <= s[k + 1]

Count(s, v) == Cardinality({k \in 1..Len(s) : s[k] = v})

\* s and t hold the same elements the same number of times.
SameBag(s, t) ==
  /\ Len(s) = Len(t)
  /\ \A k \in 1..Len(s) : Count(s, s[k]) = Count(t, s[k])

\* An index outside [0, Len()).
OutOfRange(q, n) == n < 0 \/ n >= LenOf(q)

\* ------------------------------------------------------------------ claims
\* C1: for any sequence of push-front, push-back, remove-front and
\* remove-back on an initially empty deque and a reference list in lockstep,
\* each removal returns the reference's value and found flag (found = false
\* exactly when the reference is empty) and Slice() equals the reference
\* list after every step.
C1_MatchesReferenceList ==
  /\ Slice(d) = ref
  /\ op \in {"PopHead", "PopTail"} =>
       /\ ~ret.panic
       /\ ret.ok = refRet.ok
       /\ ret.v = refRet.v
       /\ refRet.ok = (LenOf(pre) > 0)

\* A remove-front took the element in the last slot of a wrapped deque, so
\* head went back to slot 0, and two elements or more stay.
C1_Witness ==
  /\ op = "PopHead"
  /\ ret.ok
  /\ Wrapped(pre)
  /\ pre.head = Cap(pre) - 1
  /\ d.head = 0
  /\ Len(ref) >= 2

\* C2: for any dequeLang program (push, remove, Grow(1..9), Clip,
\* PushBackSlice from Make(0), all pushed values distinct) Len() is the
\* reference list's length, At(i) its i-th element, Slice() has length Len()
\* with Slice()[i] = At(i) and no repeated element; Grow and Clip change
\* neither Len() nor the logical sequence.
C2_LangMatchesList ==
  LET s == Slice(d)
  IN /\ LenOf(d) = Len(ref)
     /\ \A k \in 0..(LenOf(d) - 1) : At(d, k) = Found(ref[k + 1])
     /\ Len(s) = LenOf(d)
     /\ \A k \in 0..(LenOf(d) - 1) : s[k + 1] = At(d, k).v
     /\ \A j, k \in 1..Len(s) : j # k => s[j] # s[k]
     /\ op \in {"Grow", "Shrink"} =>
          (LenOf(d) = LenOf(pre) /\ s = Slice(pre))

\* Grow reallocated a wrapped deque of two elements or more.
C2_Witness ==
  /\ op = "Grow"
  /\ Wrapped(pre)
  /\ LenOf(pre) >= 2
  /\ Cap(d) > Cap(pre)
  /\ d.head = 0

\* C3: in every state reached by construction, push, remove, Grow, Clip and
\* swap operations, 0 <= Len() <= Cap().
C3_LenWithinCap == 0 <= LenOf(d) /\ LenOf(d) <= Cap(d)

\* A push filled a backing array of four slots while its live range wraps.
C3_Witness ==
  /\ op = "PushHead"
  /\ LenOf(d) = Cap(d)
  /\ Cap(d) >= 4
  /\ Wrapped(d)

\* C4: across every operation other than Clip the capacity after it is at
\* least the capacity before it; only Clip (Shrink) lowers the capacity.
C4_CapOnlyClipLowers == op # "Shrink" => Cap(d) >= Cap(pre)

\* A push on a full, non-empty deque reallocated to a larger array.
C4_Witness ==
  /\ op \in {"PushHead", "PushTail", "PushBackSlice"}
  /\ LenOf(pre) = Cap(pre)
  /\ Cap(pre) >= 2
  /\ Cap(d) > Cap(pre)

\* C5: right after Grow(n) or Make(n), n >= 0, Cap() - Len() >= n, and the
\* next n pushes (front or back) leave Cap() as that Grow left it.
C5_GrowReserves ==
  /\ (op \in {"Grow", "Make"} /\ ~ret.panic) => Cap(d) - LenOf(d) >= arg[1]
  /\ reserveCap # NoReserve => Cap(d) = reserveCap[1]

\* A push was covered by a reservation that still covers one more push, on
\* a deque that was not empty.
C5_Witness ==
  /\ op \in {"PushHead", "PushTail"}
  /\ reserveCap # NoReserve
  /\ reserve >= 1
  /\ LenOf(d) >= 2

\* C6: after Clip, Cap() = Len() and the logical sequence is unchanged, and
\* a second Clip right after it changes nothing.
C6_ClipExact ==
  op = "Shrink" =>
    /\ Cap(d) = LenOf(d)
    /\ Slice(d) = Slice(pre)
    /\ Shrink(d) = d

\* Clip reallocated a wrapped deque with spare capacity.
C6_Witness ==
  /\ op = "Shrink"
  /\ Wrapped(pre)
  /\ Cap(pre) > LenOf(pre)
  /\ LenOf(d) >= 2
  /\ d # pre

\* C7: Front, Back, RemoveFront, RemoveBack on an empty deque and At(n) for
\* n < 0 or n >= Len() return the zero value with found = false, do not
\* panic and leave the deque as it was; At(n) for 0 <= n < Len() is found.
C7_NotFoundNoPanic ==
  /\ (op \in {"Front", "Back", "PopHead", "PopTail"} /\ LenOf(pre) = 0) =>
       (ret = NotFound /\ d = pre)
  /\ (op = "At" /\ OutOfRange(pre, arg[1])) => (ret = NotFound /\ d = pre)
  /\ (op = "At" /\ ~OutOfRange(pre, arg[1])) => (ret.ok /\ ~ret.panic)

\* At(Len()) was asked of a non-empty deque whose slot at that index holds
\* a stale non-zero element.
C7_Witness ==
  /\ op = "At"
  /\ arg[1] = LenOf(d)
  /\ LenOf(d) >= 1
  /\ Cap(d) > LenOf(d)
  /\ d.backing[at(d, arg[1]) + 1] # Zero
  /\ ret = NotFound

\* C8: Sortable.Swap(i, j) and Sortable.Less(i, j) panic whenever i or j is
\* outside [0, Len()), and leave the deque as it was.
C8_SortableFailsFast ==
  (op \in {"Less", "Swap"}
     /\ (OutOfRange(pre, arg[1]) \/ OutOfRange(pre, arg[2]))) =>
    (ret.panic /\ d = pre)

\* C9: Grow(n) with n < 0 and Make(c) with c < 0 panic, and the failing Grow
\* leaves the deque as it was.
C9_NegativePanics ==
  /\ (op = "Make" /\ arg[1] < 0) => ret.panic
  /\ (op = "Grow" /\ arg[1] < 0) => (ret.panic /\ d = pre)

\* Grow(-1) was called on a non-empty deque.
C9_Witness ==
  /\ op = "Grow"
  /\ arg[1] < 0
  /\ ret.panic
  /\ LenOf(d) >= 1

\* C10: a sort that uses only Len, Less and Swap with in-range indices
\* leaves the logical sequence ascending and a permutation of what it was,
\* with Len() and Cap() unchanged.
C10_SortSorts ==
  op = "Sort" =>
    /\ Ascending(Slice(d))
    /\ SameBag(Slice(d), Slice(pre))
    /\ LenOf(d) = LenOf(pre)
    /\ Cap(d) = Cap(pre)

\* A wrapped deque of at least three elements that was not in order was
\* sorted.
C10_Witness ==
  /\ op = "Sort"
  /\ Wrapped(pre)
  /\ LenOf(pre) >= 3
  /\ ~Ascending(Slice(pre))
  /\ Slice(pre)[1] > Slice(pre)[LenOf(pre)]

\* C11: Of(9,8,7,6), sorted through the adapter, then PushHead of 5, 4, 3,
\* 2, 1: the sequence is 1..9, Len() = 9, Cap() = 16 (>= 9); nine PopTail
\* calls return 9, 8, ..., 1 with ok = true and the tenth returns ok = false.
C11_ExampleScenario ==
  /\ steps = 2 => Slice(d) = << 6, 7, 8, 9 >>
  /\ steps = 7 =>
       /\ Slice(d) = << 1, 2, 3, 4, 5, 6, 7, 8, 9 >>
       /\ LenOf(d) = 9
       /\ Cap(d) >= 9
       /\ Cap(d) = 16
  /\ steps \in 8..16 => ret = Found(17 - steps)
  /\ steps = 17 => (ret = NotFound /\ LenOf(d) = 0 /\ Cap(d) = 16)
  /\ steps <= 17

\* The run from 9, 8, 7, 6 made its tenth PopTail.
C11_Witness ==
  /\ arg = << 9, 8, 7, 6 >>
  /\ steps = 17
  /\ op = "PopTail"
  /\ ~ret.ok

\* C12: Of(items...) holds the sequence that pushing each item to the back
\* of an empty deque gives, and for the deque d of any reachable state
\* Of(d.Slice()...) has the same Slice() as d.
C12_OfIsPushBack ==
  LET s     == Slice(d)
      built == Of(s)
      t     == Slice(built)
  IN /\ t = s
     /\ LenOf(built) = LenOf(d)
     /\ Slice(PushBackSeq(ZeroDeque, s)) = t
     /\ op = "Of" => s = arg

\* A wrapped deque of three elements, not all equal, that Of rebuilds into
\* another layout.
C12_Witness ==
  /\ Wrapped(d)
  /\ LenOf(d) = 3
  /\ Slice(d) = << 0, 1, 1 >>
  /\ Of(Slice(d)) # d
  /\ Slice(Of(Slice(d))) = << 0, 1, 1 >>

\* C13: in every reachable state All() iterated to completion yields the
\* pairs (i, At(i)) for i = 0, ..., Len()-1 in that order, Reverse() yields
\* the same pairs in the opposite order, from Len()-1 down to 0, and both
\* yield nothing on an empty deque.
C13_AllAndReverse ==
  LET a == All(d)
      r == Reverse(d)
      n == LenOf(d)
  IN /\ Len(a) = n
     /\ Len(r) = n
     /\ \A k \in 1..n :
          /\ At(d, k - 1).ok
          /\ a[k] = << k - 1, At(d, k - 1).v >>
          /\ r[k] = << n - k, At(d, n - k).v >>
          /\ r[k] = a[n + 1 - k]
     /\ n = 0 => (a = << >> /\ r = << >>)

\* A wrapped deque of at least three elements whose first and last differ,
\* so that All and Reverse yield different sequences.
C13_Witness ==
  /\ Wrapped(d)
  /\ LenOf(d) >= 3
  /\ Len(All(d)) = LenOf(d)
  /\ All(d)[1][2] # All(d)[LenOf(d)][2]
  /\ Reverse(d)[1] = << LenOf(d) - 1, All(d)[LenOf(d)][2] >>

\* C14: in every reachable state Front() returns what At(0) returns and
\* Back() what At(Len()-1) returns; neither changes the deque; a RemoveFront
\* (RemoveBack) issued right after a Front (Back) returns the value and the
\* found flag that call returned, and Len() goes down by one iff found.
C14_PeekThenRemove ==
  [][/\ Front(d) = At(d, 0)
     /\ Back(d) = At(d, LenOf(d) - 1)
     /\ op' = "Front" => (d' = d /\ ret' = At(d, 0))
     /\ op' = "Back" => (d' = d /\ ret' = At(d, LenOf(d) - 1))
     /\ (op = "Front" /\ op' = "PopHead") =>
          /\ ret' = ret
          /\ LenOf(d') = LenOf(d) - (IF ret.ok THEN 1 ELSE 0)
     /\ (op = "Back" /\ op' = "PopTail") =>
          /\ ret' = ret
          /\ LenOf(d') = LenOf(d) - (IF ret.ok THEN 1 ELSE 0)
     /\ op' = "PopHead" =>
          (ret' = Front(d) /\ (ret'.ok <=> LenOf(d') = LenOf(d) - 1))
     /\ op' = "PopTail" =>
          (ret' = Back(d) /\ (ret'.ok <=> LenOf(d') = LenOf(d) - 1))
    ]_vars

\* A RemoveFront took the front of a deque whose head was in the last slot,
\* and the element behind it differs from the one returned.
C14_Witness ==
  /\ op = "PopHead"
  /\ ret.ok
  /\ LenOf(pre) >= 2
  /\ pre.head = Cap(pre) - 1
  /\ d.head = 0
  /\ Front(pre).v # Front(d).v

\* C15: PushBackSlice(s) grows once: over the whole call the capacity
\* changes at most once, in the initial Grow(len(s)); no PushBack of the
\* loop changes Cap(); afterwards the sequence is the previous sequence
\* followed by s and Len() is len(s) larger.
C15_PushBackSliceGrowsOnce ==
  op = "PushBackSlice" =>
    LET s  == arg
        n  == Len(s)
        st == PushBackSliceSteps(pre, s)
    IN /\ d = st[n + 1]
       /\ \A k \in 1..n :
            /\ Cap(st[k + 1]) = Cap(st[k])
            /\ LenOf(st[k + 1]) = LenOf(st[k]) + 1
       /\ Cap(st[1]) # Cap(pre) => Cap(pre) - LenOf(pre) < n
       /\ Cap(d) = Cap(st[1])
       /\ Slice(d) = Slice(pre) \o s
       /\ LenOf(d) = LenOf(pre) + n

\* A slice of three values pushed to a wrapped deque without room for them:
\* the Grow reallocates and the pushes do not.
C15_Witness ==
  /\ op = "PushBackSlice"
  /\ Len(arg) = 3
  /\ Wrapped(pre)
  /\ Cap(pre) - LenOf(pre) < 3
  /\ Cap(d) > Cap(pre)
  /\ Slice(d) = Slice(pre) \o arg

\* The physical slots (0-based) whose content differs between p and q, two
\* deques over arrays of the same length.
ChangedSlots(p, q) ==
  {k \in 0..(Len(p.backing) - 1) : p.backing[k + 1] # q.backing[k + 1]}

\* q is p's array and capacity: nothing was reallocated.
SameArray(p, q) ==
  Cap(q) = Cap(p) /\ Len(q.backing) = Len(p.backing)

\* The operation that led here went through a Grow or Clip that reallocated:
\* a Grow(n) (alone, or inside Make, Of, a push or PushBackSlice) with fewer
\* than n free slots, or a Clip with Cap() # Len().
Reallocating ==
  LET free == Cap(pre) - LenOf(pre)
  IN \/ op \in {"Make", "Grow"} /\ ~ret.panic /\ free < arg[1]
     \/ op \in {"Of", "PushBackSlice"} /\ free < Len(arg)
     \/ op \in {"PushHead", "PushTail"} /\ free < 1
     \/ op = "Shrink" /\ Cap(pre) # LenOf(pre)

\* C16: the backing array is replaced only by a Grow or Clip that
\* reallocates. PopHead, PopTail, Swap, the queries and a push made while
\* Cap() - Len() >= 1 keep the array: same capacity, every element in the
\* slot it had, only the slots the operation writes changed. (A call that
\* panicked returned no deque and is left out.)
C16_OnlyGrowAndClipReallocate ==
  /\ (Running /\ ~SameArray(pre, d)) => Reallocating
  /\ (Running /\ ~Reallocating) =>
       /\ SameArray(pre, d)
       /\ \A i \in 0..(LenOf(pre) - 1) :
            op \notin {"Swap", "Sort"} =>
              d.backing[at(pre, i) + 1] = pre.backing[at(pre, i) + 1]
       /\ op \in {"PopHead", "PopTail", "Front", "Back", "At", "Less",
                  "Grow", "Shrink", "Make"} => d.backing = pre.backing
       /\ op \in {"PushHead", "PushTail"} =>
            /\ Cardinality(ChangedSlots(pre, d)) <= 1
            /\ ChangedSlots(pre, d) \subseteq
                 {IF op = "PushHead" THEN d.head ELSE tail(d)}
       /\ op = "PushBackSlice" =>
            Cardinality(ChangedSlots(pre, d)) <= Len(arg)
       /\ op = "Swap" =>
            /\ Cardinality(ChangedSlots(pre, d)) <= 2
            /\ d.head = pre.head
            /\ d.len = pre.len
       /\ op = "Sort" => (d.head = pre.head /\ d.len = pre.len)

\* A push into the last free slot of a deque whose head is not at slot 0:
\* the array is kept and the new element lands in the slot before head.
C16_Witness ==
  /\ op = "PushTail"
  /\ Cap(pre) - LenOf(pre) = 1
  /\ pre.head > 0
  /\ LenOf(pre) >= 2
  /\ Cap(d) = Cap(pre)
  /\ d.head = pre.head
  /\ tail(d) = pre.head - 1

\* C17: in every reachable state with Cap() > 0, 0 <= head < Cap(); a
\* PushHead from head = 0 leaves head = Cap()-1 and a PopHead from
\* head = Cap()-1 leaves head = 0; and element i of the logical sequence
\* (the reference list's element i) is in slot (head + i) mod Cap().
C17_HeadInRange ==
  /\ Cap(d) > 0 => (0 <= d.head /\ d.head < Cap(d))
  /\ LenOf(d) = Len(ref)
  /\ \A i \in 0..(LenOf(d) - 1) :
       d.backing[((d.head + i) % Cap(d)) + 1] = ref[i + 1]
  /\ (op = "PushHead" /\ Grow(pre, 1).head = 0) => d.head = Cap(d) - 1
  /\ (op = "PushHead" /\ Grow(pre, 1).head > 0) =>
       d.head = Grow(pre, 1).head - 1
  /\ (op = "PopHead" /\ ret.ok) =>
       d.head = (IF pre.head = Cap(pre) - 1 THEN 0 ELSE pre.head + 1)

\* A PopHead moved head from the last slot back to slot 0 of an array of
\* three or more slots, and elements remain.
C17_Witness ==
  /\ op = "PopHead"
  /\ ret.ok
  /\ Cap(pre) >= 3
  /\ pre.head = Cap(pre) - 1
  /\ d.head = 0
  /\ Len(ref) >= 2
  /\ ret.v # ref[1]

\* q holds the sequence s in slots 0..Len(s)-1, in order, with head = 0.
Linear(q, s) ==
  /\ q.head = 0
  /\ LenOf(q) = Len(s)
  /\ Len(q.backing) >= Len(s)
  /\ \A k \in 1..Len(s) : q.backing[k] = s[k]

\* The array of capacity c that a reallocating Grow of q hands to copy (q's
\* slots followed by the zero slots append adds), and the one Clip hands
\* to it.
GrowDst(q, c) ==
  [elems |-> q.backing \o zeros(c - Len(q.backing)), cap |-> c,
   fresh |-> TRUE]
ClipDst(q) == [elems |-> zeros(LenOf(q)), cap |-> LenOf(q), fresh |-> TRUE]

\* C18: a Grow or Clip that reallocates leaves head = 0 and the live
\* elements in slots 0..Len()-1 in logical order, the front run first and
\* the back run after it, wherever head was and whether or not the live
\* range wrapped; so does the copy of the earlier variant, run on the same
\* deque and the same new array. A push that had to grow wrote its element
\* next to that linear run.
C18_ReallocationLinearizes ==
  LET fb  == frontback(pre)
      was == fb.front \o fb.back
      g   == Grow(pre, 1)
  IN /\ (op \in {"Grow", "Shrink"} /\ Cap(d) # Cap(pre)) =>
          /\ Linear(d, ref)
          /\ Linear(d, was)
          /\ Linear(copyRotate(pre, IF op = "Grow" THEN GrowDst(pre, Cap(d))
                                    ELSE ClipDst(pre)), was)
     /\ (op \in {"PushHead", "PushTail"} /\ Cap(d) # Cap(pre)) =>
          /\ Linear(g, was)
          /\ Linear(copyRotate(pre, GrowDst(pre, Cap(d))), was)
          /\ \A k \in 1..Len(was) : d.backing[k] = was[k]
          /\ d.head = (IF op = "PushHead" THEN Cap(d) - 1 ELSE 0)

\* A Grow reallocated a wrapped deque of three or more elements whose head
\* was past slot 1.
C18_Witness ==
  /\ op = "Grow"
  /\ Wrapped(pre)
  /\ pre.head >= 2
  /\ LenOf(pre) >= 3
  /\ Cap(d) > Cap(pre)
  /\ Linear(d, ref)
  /\ d.backing # pre.backing \o zeros(Cap(d) - Cap(pre))

\* C19: in every reachable state (empty, zero capacity, full, wrapped or
\* not) frontback returns backing[head : min(head+Len, Cap)] and
\* backing[0 : remaining]; the two lengths sum to Len(); front followed by
\* back is At(0), ..., At(Len()-1); and Items() equals Slice().
C19_FrontBackSplit ==
  LET fb   == frontback(d)
      n    == LenOf(d)
      end0 == d.head + n
      end  == IF end0 < Cap(d) THEN end0 ELSE Cap(d)
      both == fb.front \o fb.back
  IN /\ Len(fb.front) + Len(fb.back) = n
     /\ Len(fb.front) = end - d.head
     /\ \A k \in 1..Len(fb.front) : fb.front[k] = d.backing[d.head + k]
     /\ \A k \in 1..Len(fb.back) : fb.back[k] = d.backing[k]
     /\ Len(both) = n
     /\ \A k \in 1..n : At(d, k - 1) = Found(both[k])
     /\ Items(d) = Slice(d)
     /\ Items(d) = both
     /\ Wrapped(d) <=> fb.back # << >>

\* A full deque that wraps, with both runs non-empty and the back run
\* different from the front run's start.
C19_Witness ==
  /\ LenOf(d) = Cap(d)
  /\ LenOf(d) >= 3
  /\ Wrapped(d)
  /\ Len(frontback(d).back) >= 2
  /\ frontback(d).back[1] # frontback(d).front[1]
  /\ Items(d) = Slice(d)

\* What a full iteration of a sequence of this kind over q yields.
Yields(kind, q) == IF kind = "All" THEN All(q) ELSE Reverse(q)

\* C20: a sequence value from All() or Reverse() reads nothing until it is
\* ranged over: getting it changes and reads nothing; an iteration made
\* after pushes and removals yields the contents the deque has when that
\* iteration starts; every iteration starts again from index 0 (Len()-1
\* for Reverse); and once the consumer breaks the loop has ended, with as
\* many elements read as were yielded and none read afterwards.
C20_LazyRestartable ==
  [][LET s    == seq'
         full == Yields(s.kind, d')
     IN /\ (seq' # seq /\ ~s.ran) =>
             (d' = d /\ s.reads = 0 /\ s.out = << >> /\ ~s.active)
        /\ (seq' # seq /\ s.ran) =>
             /\ d' = d
             /\ s.reads = Len(s.out)
             /\ Len(s.out) <= Len(full)
             /\ s.out = SubSeq(full, 1, Len(s.out))
             /\ s.out # << >> => s.out[1][1] = FirstIndex(s.kind, d')
             /\ (~s.active /\ ~s.stopped) => s.out = full
             /\ s.stopped => (~s.active /\ s.out # << >>)
        /\ s.runs = seq.runs + 1 =>
             (s.out = << >> /\ s.reads = 0 /\ s.i = FirstIndex(s.kind, d))
        /\ (seq.stopped /\ s.runs = seq.runs /\ s.kind = seq.kind) =>
             (s.reads = seq.reads /\ s.out = seq.out)
    ]_vars

\* The second iteration of a Reverse sequence, over a wrapped deque that
\* was changed after the sequence was obtained, broken off after two of
\* three or more elements.
C20_Witness ==
  /\ seq.kind = "Reverse"
  /\ seq.runs = 2
  /\ seq.stopped
  /\ ~seq.active
  /\ seq.madeLen # LenOf(d)
  /\ LenOf(d) >= 3
  /\ Wrapped(d)
  /\ Len(seq.out) = 2
  /\ seq.reads = 2

\* The logical sequence of a deque read off its ring: slot (head + k) mod
\* Cap() for k = 0..Len()-1.
Ring(q) ==
  [k \in 1..LenOf(q) |-> q.backing[((q.head + k - 1) % Cap(q)) + 1]]

\* C21: the earlier variant (copy rotates the whole array) and the later
\* one (copy moves the front and back runs), given the same PushHead,
\* PushTail, PopHead, PopTail, Head, Tail, Grow and Shrink calls, return the
\* same value and ok flag at every step and have the same Len(), Cap() and
\* logical sequence.
C21_VariantsEquivalent ==
  /\ ret = early.ret
  /\ LenOf(d) = LenOf(early.q)
  /\ Cap(d) = Cap(early.q)
  /\ Slice(d) = Ring(early.q)
  /\ Front(d) = Front(early.q)
  /\ Back(d) = TailEarly(early.q)

\* After a reallocation the two arrays differ (the earlier copy carried a
\* removed value along, the later one left a zero), and the deques wrap and
\* still agree on what Tail returned.
C21_Witness ==
  /\ op = "Back"
  /\ ret.ok
  /\ ret = early.ret
  /\ d.backing # early.q.backing
  /\ Wrapped(d)
  /\ LenOf(d) >= 2

\* C22: in every reachable state len(backing) = cap(backing) = Cap(); hence
\* a Grow(n) that has to reallocate appends past the capacity and gets a
\* new array; and the slots the deque addresses are inside the slice: head,
\* tail and (head + i) mod Cap() for every i in [0, Len()), with Cap() > 0
\* whenever there is an element, and the bounds of the two frontback runs.
C22_BackingFull ==
  LET n    == LenOf(d)
      size == Len(d.backing)
      end0 == d.head + n
      end  == IF end0 > size THEN size ELSE end0
      rest == n - (end - d.head)
  IN /\ size = d.bcap
     /\ size = Cap(d)
     /\ \A k \in 0..(MaxGrow + 1) : Cap(d) - n < k => size + k > d.bcap
     /\ (op \in {"Grow", "PushHead", "PushTail", "PushBackSlice"}
           /\ Cap(d) # Cap(pre)) => Cap(d) > Len(pre.backing)
     /\ n >= 1 => (Cap(d) >= 1 /\ InRange(d, d.head) /\ InRange(d, tail(d)))
     /\ \A i \in 0..(n - 1) : InRange(d, at(d, i))
     /\ 0 <= d.head /\ d.head <= end /\ end <= size
     /\ 0 <= rest /\ rest <= size
     /\ ret.panic => op \in {"Make", "Grow", "Less", "Swap"}

\* A PushHead into a full array of two or more slots: its Grow reallocated,
\* the new slice is as long as its capacity, and head went to the last slot.
C22_Witness ==
  /\ op = "PushHead"
  /\ LenOf(pre) = Cap(pre)
  /\ Cap(pre) >= 2
  /\ Cap(d) > Cap(pre)
  /\ Len(d.backing) = Cap(d)
  /\ d.head = Cap(d) - 1
  /\ Wrapped(d)

====
